---- MODULE Spec2Model ----
(***************************************************************************)
(* A model of src/tool.py: the AICompetitiveResearch pipeline.             *)
(*                                                                         *)
(*   extract_sources          a pure function, modelled as an operator     *)
(*   research_companies       the per-company loop, one action per         *)
(*                            external call and its outcome                *)
(*   generate_markdown_report a pure function, modelled as an operator     *)
(*   export_markdown / main   the report writer and the entry point        *)
(*                                                                         *)
(* Three specifications share the variables:                               *)
(*   SpecExtract  extract_sources applied to a bounded set of responses    *)
(*   Spec         main(): research_companies followed by export_markdown   *)
(*   SpecReport   export_markdown applied to a bounded set of result maps  *)
(***************************************************************************)
EXTENDS Integers, Sequences, FiniteSets, TLC

VARIABLES
    search_input,      \* SpecExtract: the response text handed to extract_sources
    extract_out,       \* SpecExtract: outcome of the call
    companies,         \* argument of research_companies
    parent_company,    \* argument of research_companies
    pc,                \* position of the running process
    idx,               \* position of the for loop in all_companies (1-based)
    research_results,  \* the dict built by research_companies / given to export
    search_results,    \* local of research_companies: text of the direct search
    sources,           \* local of research_companies: result of extract_sources
    tool_calls,        \* web_search invocations made by the remote agent, this run
    comparison_result, \* local of research_companies: content of the comparison
    returned,          \* what research_companies returned to main
    fault,             \* the uncaught exception that ended the process
    report,            \* local of export_markdown: the rendered report
    file,              \* the report file on disk
    io_error,          \* which file operation of export_markdown failed
    messages,          \* what export_markdown printed
    events,            \* history: the external calls issued, in order
    last_run           \* history: per company name, the inputs of its last run

vars == <<search_input, extract_out, companies, parent_company, pc, idx,
          research_results, search_results, sources, tool_calls,
          comparison_result, returned, fault, report, file, io_error,
          messages, events, last_run>>

(***************************************************************************)
(* Bounds of the model.                                                    *)
(***************************************************************************)
MaxEntries == 3      \* entries in an `organic` array
MaxCompanies == 2    \* length of `companies`
MaxToolCalls == 1    \* web_search invocations by the agent in one run
MaxKeys == 2         \* company keys of a result map given to export_markdown

(***************************************************************************)
(* JSON values as json.loads produces them.  A value is tagged with its    *)
(* Python type; a string carries its text.                                 *)
(***************************************************************************)
JStr(s) == [t |-> "str", s |-> s]
JList == [t |-> "list", s |-> "nonempty"]

\* Python truthiness of a value: bool(v)
Truthy(v) ==
    CASE v.t = "str" -> v.s # ""
      [] v.t = "null" -> FALSE
      [] OTHER -> TRUE

\* Whether hash(v) succeeds (a list is unhashable)
Hashable(v) == v.t # "list"

\* dict.get(key, default)
Get(d, key, default) == IF key \in DOMAIN d THEN d[key] ELSE default

(***************************************************************************)
(* extract_sources (src/tool.py 74-97).                                    *)
(*                                                                         *)
(* A response text is [json, doc]: json says whether json.loads accepts    *)
(* it, doc is the value it parses to.  A doc is [t, has_organic, organic]: *)
(* t is its Python type, has_organic the value of `'organic' in results`   *)
(* where that is defined, organic the value of results['organic'] of a     *)
(* dict.  The organic value is [t, items]: items is what iterating it      *)
(* yields.  An item is [t, d]: a dict d, or something that is no dict.     *)
(***************************************************************************)
Ok(v) == [exc |-> "none", val |-> v]
Raise(e) == [exc |-> e, val |-> <<>>]

\* json.loads(search_results), line 79
json_loads(text) ==
    IF text.json THEN Ok(text.doc) ELSE Raise("JSONDecodeError")

\* `'organic' in results`, line 83
contains_organic(results) ==
    IF results.t \in {"null", "num"} THEN Raise("TypeError")
    ELSE Ok(results.has_organic)

\* results['organic'], line 84
subscript_organic(results) ==
    IF results.t = "dict" THEN Ok(results.organic) ELSE Raise("TypeError")

\* iter(results['organic']), line 84
iterate(organic) ==
    IF organic.t \in {"null", "num"} THEN Raise("TypeError")
    ELSE Ok(organic.items)

\* The body of the for loop, lines 85-92, on one item; acc = [sources, source_links]
\* (a variant that does not test source_links)
loop_body_no_dedup(acc, result) ==
    IF result.t # "dict" THEN Raise("AttributeError")
    ELSE LET link == Get(result.d, "link", JStr(""))
         IN IF ~Truthy(link) THEN Ok(acc)
            ELSE IF ~Hashable(link) THEN Raise("TypeError")
            ELSE Ok([sources |-> Append(acc.sources,
                                   [title |-> Get(result.d, "title", JStr("Untitled")),
                                    link |-> link,
                                    snippet |-> Get(result.d, "snippet", JStr(""))]),
                     source_links |-> acc.source_links \cup {link}])

loop_body(acc, result) ==
    IF result.t # "dict" THEN Raise("AttributeError")
    ELSE LET link == Get(result.d, "link", JStr(""))
         IN IF ~Truthy(link) THEN Ok(acc)
            ELSE IF ~Hashable(link) THEN Raise("TypeError")
            ELSE IF link \in acc.source_links THEN Ok(acc)
            ELSE Ok([sources |-> Append(acc.sources,
                                   [title |-> Get(result.d, "title", JStr("Untitled")),
                                    link |-> link,
                                    snippet |-> Get(result.d, "snippet", JStr(""))]),
                     source_links |-> acc.source_links \cup {link}])

\* The for loop, lines 84-92: stops at the first exception
RECURSIVE for_loop(_, _)
for_loop(acc, items) ==
    IF items = <<>> THEN Ok(acc)
    ELSE LET step == loop_body(acc, Head(items))
         IN IF step.exc # "none" THEN step
            ELSE for_loop(step.val, Tail(items))

\* The try block, lines 79-94
try_block(text) ==
    LET parsed == json_loads(text)
    IN IF parsed.exc # "none" THEN parsed
       ELSE LET results == parsed.val
                test == contains_organic(results)
            IN IF test.exc # "none" THEN test
               ELSE IF ~test.val THEN Ok(<<>>)
               ELSE LET organic == subscript_organic(results)
                    IN IF organic.exc # "none" THEN organic
                       ELSE LET items == iterate(organic.val)
                            IN IF items.exc # "none" THEN items
                               ELSE LET done == for_loop(
                                          [sources |-> <<>>, source_links |-> {}],
                                          items.val)
                                    IN IF done.exc # "none" THEN done
                                       ELSE Ok(done.val.sources)

\* Which exceptions the except clause of line 95 catches: Exception, i.e. all
\* (a variant: `except json.JSONDecodeError`)
catches_only_decode_errors(e) == e = "JSONDecodeError"

catches(e) == e \in {"JSONDecodeError", "TypeError", "AttributeError"}

\* extract_sources, lines 74-97: [raised, ret, logged]
\*   raised  the exception that leaves the function, or "none"
\*   ret     the list returned
\*   logged  number of "Error extracting sources" lines printed
extract_sources(text) ==
    LET r == try_block(text)
    IN IF r.exc = "none" THEN [raised |-> "none", ret |-> r.val, logged |-> 0]
       ELSE IF catches(r.exc) THEN [raised |-> "none", ret |-> <<>>, logged |-> 1]
       ELSE [raised |-> r.exc, ret |-> <<>>, logged |-> 0]

(***************************************************************************)
(* The responses extract_sources is applied to in SpecExtract.             *)
(***************************************************************************)
LinkValues == {JStr(""), JStr("u1"), JStr("u2"), JList}
TitleValues == {JStr("t1")}
SnippetValues == {JStr("s1")}

\* an optional field: <<>> when the key is absent, <<v>> when it holds v
Optional(S) == {<<>>} \cup {<<v>> : v \in S}

MkDict(lo, to, so) ==
    LET opt(k) == CASE k = "link" -> lo [] k = "title" -> to [] OTHER -> so
    IN [k \in {f \in {"link", "title", "snippet"} : opt(f) # <<>>} |-> opt(k)[1]]

DictItem(d) == [t |-> "dict", d |-> d]
NonDictItem == [t |-> "str", d |-> <<>>]

Items ==
    {DictItem(MkDict(lo, to, so)) :
        lo \in Optional(LinkValues), to \in Optional(TitleValues),
        so \in Optional(SnippetValues)}
    \cup {NonDictItem}

SeqUpTo(S, n) == UNION {[1..k -> S] : k \in 0..n}

OrganicValues ==
    {[t |-> "list", items |-> s] : s \in SeqUpTo(Items, MaxEntries)}
    \cup {[t |-> ty, items |-> <<>>] : ty \in {"null", "num", "str", "dict"}}
    \cup {[t |-> ty, items |-> <<NonDictItem>>] : ty \in {"str", "dict"}}

NoOrganic == [t |-> "null", items |-> <<>>]

Docs ==
    {[t |-> "dict", has_organic |-> TRUE, organic |-> o] : o \in OrganicValues}
    \cup {[t |-> "dict", has_organic |-> FALSE, organic |-> NoOrganic]}
    \cup {[t |-> ty, has_organic |-> h, organic |-> NoOrganic] :
            ty \in {"list", "str"}, h \in BOOLEAN}
    \cup {[t |-> ty, has_organic |-> FALSE, organic |-> NoOrganic] :
            ty \in {"null", "num"}}

NotJson == [json |-> FALSE, doc |-> [t |-> "null", has_organic |-> FALSE,
                                     organic |-> NoOrganic]]

Responses == {NotJson} \cup {[json |-> TRUE, doc |-> d] : d \in Docs}

NotCalled == [raised |-> "pending", ret |-> <<>>, logged |-> 0]

(***************************************************************************)
(* Python dicts keep insertion order: a dict is a sequence of [k, v]       *)
(* with distinct keys.  A value of a result map is tagged with its Python  *)
(* type: a dict d (a CompanyResearch record) or a str s.                   *)
(***************************************************************************)
DictValue(d) == [type |-> "dict", d |-> d, s |-> ""]
StrValue(s) == [type |-> "str", d |-> [k \in {} |-> ""], s |-> s]

DictKeys(m) == {m[j].k : j \in 1..Len(m)}
DictHas(m, key) == key \in DictKeys(m)
DictGet(m, key) == m[CHOOSE j \in 1..Len(m) : m[j].k = key].v

\* m[key] = value: a new key goes last, an existing key keeps its place
DictSet(m, key, value) ==
    IF DictHas(m, key)
    THEN [j \in 1..Len(m) |-> IF m[j].k = key THEN [k |-> key, v |-> value] ELSE m[j]]
    ELSE Append(m, [k |-> key, v |-> value])

(***************************************************************************)
(* generate_markdown_report (src/tool.py 139-160).  The report is the      *)
(* sequence of its lines.                                                  *)
(***************************************************************************)
ReportTitle == "# AI Offerings and Case Studies Competitive Research Report"
ComparativeHeading == "## Comparative Analysis"
NoComparative == "No comparative analysis available"
CompanyHeading(company) == "## " \o company \o " AI Offerings"
SourcesHeading == "### Research Sources:"
Reserved == "comparative_analysis"

\* str(v) of a JSON value, as an f-string formats it
Format(v) ==
    CASE v.t = "str" -> v.s
      [] v.t = "null" -> "None"
      [] OTHER -> "[...]"

\* f"{value}" of a value of the result map, line 158
FormatValue(value) == IF value.type = "str" THEN value.s ELSE "{...}"

\* lines 152-153: one bullet per source
RECURSIVE source_lines(_)
source_lines(srcs) ==
    IF srcs = <<>> THEN <<>>
    ELSE <<"- **" \o Format(Head(srcs).title) \o "**: " \o Format(Head(srcs).link)>>
         \o source_lines(Tail(srcs))

\* lines 148-154: the section of one company
company_section(company, data) ==
    IF data.type # "dict" THEN Raise("TypeError")
    ELSE IF "ai_offerings" \notin DOMAIN data.d THEN Raise("KeyError")
    ELSE Ok(<<CompanyHeading(company), "", data.d["ai_offerings"], "",
              SourcesHeading>>
            \o source_lines(Get(data.d, "sources", <<>>))
            \o <<"">>)

\* lines 157-158: the comparative analysis section
comparative_section(research_data) ==
    <<ComparativeHeading, "",
      IF DictHas(research_data, Reserved)
      THEN FormatValue(DictGet(research_data, Reserved))
      ELSE NoComparative>>

\* lines 146-154: the loop over research_data.items(), from item j on
RECURSIVE company_sections(_, _)
company_sections(research_data, j) ==
    IF j > Len(research_data) THEN Ok(<<>>)
    ELSE IF research_data[j].k = Reserved
    THEN company_sections(research_data, j + 1)
    ELSE LET sec == company_section(research_data[j].k, research_data[j].v)
         IN IF sec.exc # "none" THEN sec
            ELSE LET rest == company_sections(research_data, j + 1)
                 IN IF rest.exc # "none" THEN rest
                    ELSE Ok(sec.val \o rest.val)

\* a variant that renders the comparative section where its key stands
RECURSIVE sections_in_key_order(_, _)
sections_in_key_order(research_data, j) ==
    IF j > Len(research_data) THEN Ok(<<>>)
    ELSE LET sec == IF research_data[j].k = Reserved
                    THEN Ok(comparative_section(research_data))
                    ELSE company_section(research_data[j].k, research_data[j].v)
         IN IF sec.exc # "none" THEN sec
            ELSE LET rest == sections_in_key_order(research_data, j + 1)
                 IN IF rest.exc # "none" THEN rest
                    ELSE Ok(sec.val \o rest.val)

generate_markdown_report_inline(research_data) ==
    LET body == sections_in_key_order(research_data, 1)
    IN IF body.exc # "none" THEN body
       ELSE Ok(<<ReportTitle, "">> \o body.val
               \o (IF DictHas(research_data, Reserved) THEN <<>>
                   ELSE comparative_section(research_data)))

\* generate_markdown_report, lines 139-160
generate_markdown_report(research_data) ==
    LET body == company_sections(research_data, 1)
    IN IF body.exc # "none" THEN body
       ELSE Ok(<<ReportTitle, "">> \o body.val \o comparative_section(research_data))

(***************************************************************************)
(* The inputs and the outcomes of the external calls.                      *)
(***************************************************************************)
Names == {"", "A", "B", Reserved}
NonEmptyNames == Names \ {""}

Source1 == [title |-> JStr("t1"), link |-> JStr("u1"), snippet |-> JStr("s1")]
Source2 == [title |-> JStr("Untitled"), link |-> JStr("u2"), snippet |-> JStr("")]

\* a well-formed response: u1 twice, then u2 without title and snippet
GoodResponse ==
    [json |-> TRUE,
     doc |-> [t |-> "dict", has_organic |-> TRUE,
              organic |-> [t |-> "list",
                           items |-> << DictItem(MkDict(<<JStr("u1")>>, <<JStr("t1")>>,
                                                        <<JStr("s1")>>)),
                                        DictItem(MkDict(<<JStr("u1")>>, <<>>, <<>>)),
                                        DictItem(MkDict(<<JStr("u2")>>, <<>>, <<>>)) >>]]]

\* what the search provider may answer to one request
SearchResponses == {NotJson, GoodResponse}

\* what AgentExecutor.invoke may return: a dict with or without 'output'
EmptyDict == [k \in {} |-> ""]
AgentResults == {[output |-> "o1"], EmptyDict}

\* the content of the comparison answer
ComparisonContents == {"c1"}

NoOfferings == "No detailed AI offerings found"

NoRun == [ran |-> FALSE, search_results |-> NotJson, research |-> EmptyDict]

NoFault == [kind |-> "none", at |-> 0]
NoFile == [exists |-> FALSE, content |-> <<>>]
OldFile == [exists |-> TRUE, content |-> <<"old">>]
NotReturned == [done |-> FALSE, value |-> <<>>]

(***************************************************************************)
(* research_companies (src/tool.py 99-137).                                *)
(***************************************************************************)
\* line 106
all_companies == companies \o <<parent_company>>

\* `if not company`, line 108 (and a variant without the test)
never_skips(company) == FALSE

skips(company) == company = ""

\* the condition under which the for loop of line 107 has ended (and a
\* variant that iterates `companies` alone)
loop_ended_before_parent == idx >= Len(all_companies)

loop_ended == idx > Len(all_companies)

\* where an exception raised in research_companies ends up: nothing catches
\* it in research_companies or in main, the process terminates (and a
\* variant in which main goes on to export_markdown)
caught_by_main == "export"

propagates_to == "crashed"

\* the effect on the local `sources` of the agent calling web_search, lines
\* 57-72: none (and a variant in which web_search feeds the source list)
sources_of_latest_search(current_sources, response) == extract_sources(response).ret

sources_after_tool_call(current_sources, response) == current_sources

\* the record of lines 121-124
company_record(research, srcs) ==
    [ai_offerings |-> Get(research, "output", NoOfferings), sources |-> srcs]

\* research_results[key] = value, lines 121 and 135
store(results, key, value) == DictSet(results, key, value)

Event(op) == [op |-> op, at |-> idx,
              name |-> IF idx <= Len(all_companies) THEN all_companies[idx] ELSE ""]

Crash(kind) ==
    /\ pc' = propagates_to
    /\ fault' = [kind |-> kind, at |-> Len(events')]

\* lines 107-109: an empty entry is skipped
SkipEmpty ==
    /\ pc = "loop"
    /\ ~loop_ended
    /\ skips(all_companies[idx])
    /\ idx' = idx + 1
    /\ UNCHANGED <<search_input, extract_out, companies, parent_company, pc,
                   research_results, search_results, sources, tool_calls,
                   comparison_result, returned, fault, report, file, io_error,
                   messages, events, last_run>>

\* lines 112-114: the direct search answers, extract_sources reads the answer
DirectSearch ==
    /\ pc = "loop"
    /\ ~loop_ended
    /\ ~skips(all_companies[idx])
    /\ \E response \in SearchResponses :
         LET ex == extract_sources(response)
         IN /\ search_results' = response
            /\ events' = Append(events, Event("search"))
            /\ IF ex.raised = "none"
               THEN /\ sources' = ex.ret
                    /\ pc' = "agent"
                    /\ fault' = fault
               ELSE /\ sources' = sources
                    /\ Crash("extract")
    /\ tool_calls' = 0
    /\ UNCHANGED <<search_input, extract_out, companies, parent_company, idx,
                   research_results, comparison_result, returned, report, file,
                   io_error, messages, last_run>>

\* line 113: requests raises (no handler, lines 71-72)
DirectSearchFault ==
    /\ pc = "loop"
    /\ ~loop_ended
    /\ ~skips(all_companies[idx])
    /\ events' = Append(events, Event("search"))
    /\ Crash("search")
    /\ UNCHANGED <<search_input, extract_out, companies, parent_company, idx,
                   research_results, search_results, sources, tool_calls,
                   comparison_result, returned, report, file, io_error,
                   messages, last_run>>

\* line 117, inside invoke: the remote side calls the web_search tool (lines 24-30)
AgentToolCall ==
    /\ pc = "agent"
    /\ tool_calls < MaxToolCalls
    /\ tool_calls' = tool_calls + 1
    /\ \E response \in SearchResponses :
         sources' = sources_after_tool_call(sources, response)
    /\ UNCHANGED <<search_input, extract_out, companies, parent_company, pc, idx,
                   research_results, search_results, comparison_result, returned,
                   fault, report, file, io_error, messages, events, last_run>>

\* lines 117-124: invoke returns, the record is stored
AgentReturn ==
    /\ pc = "agent"
    /\ \E research \in AgentResults :
         /\ research_results' = store(research_results, all_companies[idx],
                                      DictValue(company_record(research, sources)))
         /\ last_run' = [last_run EXCEPT ![all_companies[idx]] =
                           [ran |-> TRUE, search_results |-> search_results,
                            research |-> research]]
    /\ events' = Append(events, Event("agent"))
    /\ idx' = idx + 1
    /\ pc' = "loop"
    /\ UNCHANGED <<search_input, extract_out, companies, parent_company,
                   search_results, sources, tool_calls, comparison_result,
                   returned, fault, report, file, io_error, messages>>

\* line 117: invoke raises (the provider, or a tool call inside it)
AgentFault ==
    /\ pc = "agent"
    /\ events' = Append(events, Event("agent"))
    /\ Crash("agent")
    /\ UNCHANGED <<search_input, extract_out, companies, parent_company, idx,
                   research_results, search_results, sources, tool_calls,
                   comparison_result, returned, report, file, io_error,
                   messages, last_run>>

\* lines 127-137: the comparison call answers, the dict is returned to main
Compare ==
    /\ pc = "loop"
    /\ loop_ended
    /\ \E content \in ComparisonContents :
         /\ comparison_result' = content
         /\ research_results' = store(research_results, Reserved, StrValue(content))
    /\ returned' = [done |-> TRUE, value |-> research_results']
    /\ events' = Append(events, Event("compare"))
    /\ pc' = "export"
    /\ UNCHANGED <<search_input, extract_out, companies, parent_company, idx,
                   search_results, sources, tool_calls, fault, report, file,
                   io_error, messages, last_run>>

\* line 134: the comparison call raises
CompareFault ==
    /\ pc = "loop"
    /\ loop_ended
    /\ events' = Append(events, Event("compare"))
    /\ Crash("compare")
    /\ UNCHANGED <<search_input, extract_out, companies, parent_company, idx,
                   research_results, search_results, sources, tool_calls,
                   comparison_result, returned, report, file, io_error,
                   messages, last_run>>

(***************************************************************************)
(* export_markdown (src/tool.py 162-176), called by main at line 197 with  *)
(* the dict research_companies returned.                                   *)
(***************************************************************************)
\* which exceptions `except IOError` of line 175 catches (and a variant
\* without the handler)
handles_nothing(e) == FALSE

handles_IOError(e) == e = "OSError"

\* what is left on disk when f.write fails: nothing, or all lines but the last
PartialContents(text) == {<<>>, SubSeq(text, 1, Len(text) - 1)}

\* lines 175-176, or the exception leaving export_markdown
AfterIOError ==
    IF handles_IOError("OSError")
    THEN /\ messages' = Append(messages, "error")
         /\ pc' = "done"
         /\ fault' = fault
    ELSE /\ messages' = messages
         /\ pc' = "crashed"
         /\ fault' = [kind |-> "io", at |-> Len(events)]

\* line 169 raises: the dict holds a company value that is no record
ExportRenderFault ==
    /\ pc = "export"
    /\ generate_markdown_report(returned.value).exc # "none"
    /\ pc' = "crashed"
    /\ fault' = [kind |-> "render", at |-> Len(events)]
    /\ UNCHANGED <<search_input, extract_out, companies, parent_company, idx,
                   research_results, search_results, sources, tool_calls,
                   comparison_result, returned, report, file, io_error,
                   messages, events, last_run>>

\* lines 169-174: the file is written
ExportWritten ==
    /\ pc = "export"
    /\ LET r == generate_markdown_report(returned.value)
       IN /\ r.exc = "none"
          /\ report' = r.val
          /\ file' = [exists |-> TRUE, content |-> r.val]
    /\ io_error' = "none"
    /\ messages' = Append(messages, "success")
    /\ pc' = "done"
    /\ UNCHANGED <<search_input, extract_out, companies, parent_company, idx,
                   research_results, search_results, sources, tool_calls,
                   comparison_result, returned, fault, events, last_run>>

\* line 172: open raises, the path cannot be written
ExportOpenFails ==
    /\ pc = "export"
    /\ LET r == generate_markdown_report(returned.value)
       IN /\ r.exc = "none"
          /\ report' = r.val
    /\ io_error' = "open"
    /\ AfterIOError
    /\ UNCHANGED <<search_input, extract_out, companies, parent_company, idx,
                   research_results, search_results, sources, tool_calls,
                   comparison_result, returned, file, events, last_run>>

\* line 173: open succeeded and truncated the file, write raises
ExportWriteFails ==
    /\ pc = "export"
    /\ LET r == generate_markdown_report(returned.value)
       IN /\ r.exc = "none"
          /\ report' = r.val
          /\ \E content \in PartialContents(r.val) :
               file' = [exists |-> TRUE, content |-> content]
    /\ io_error' = "write"
    /\ AfterIOError
    /\ UNCHANGED <<search_input, extract_out, companies, parent_company, idx,
                   research_results, search_results, sources, tool_calls,
                   comparison_result, returned, events, last_run>>

(***************************************************************************)
(* Spec: main (src/tool.py 179-197) with any companies and parent_company  *)
(* in place of the literals of lines 189-190.                              *)
(***************************************************************************)
Init ==
    /\ search_input = NotJson
    /\ extract_out = NotCalled
    /\ companies \in SeqUpTo(Names, MaxCompanies)
    /\ parent_company \in Names
    /\ pc = "loop"
    /\ idx = 1
    /\ research_results = <<>>
    /\ search_results = NotJson
    /\ sources = <<>>
    /\ tool_calls = 0
    /\ comparison_result = ""
    /\ returned = NotReturned
    /\ fault = NoFault
    /\ report = <<>>
    /\ file = NoFile
    /\ io_error = "none"
    /\ messages = <<>>
    /\ events = <<>>
    /\ last_run = [n \in NonEmptyNames |-> NoRun]

Next ==
    \/ SkipEmpty
    \/ DirectSearch
    \/ DirectSearchFault
    \/ AgentToolCall
    \/ AgentReturn
    \/ AgentFault
    \/ Compare
    \/ CompareFault
    \/ ExportWritten
    \/ ExportOpenFails
    \/ ExportWriteFails

Spec == Init /\ [][Next]_vars

(***************************************************************************)
(* SpecExtract: extract_sources applied to every response of Responses.    *)
(***************************************************************************)
Extract ==
    /\ pc = "extract"
    /\ extract_out' = extract_sources(search_input)
    /\ pc' = "extracted"
    /\ UNCHANGED <<search_input, companies, parent_company, idx,
                   research_results, search_results, sources, tool_calls,
                   comparison_result, returned, fault, report, file, io_error,
                   messages, events, last_run>>

InitExtract ==
    /\ search_input \in Responses
    /\ extract_out = NotCalled
    /\ companies = <<>>
    /\ parent_company = ""
    /\ pc = "extract"
    /\ idx = 1
    /\ research_results = <<>>
    /\ search_results = NotJson
    /\ sources = <<>>
    /\ tool_calls = 0
    /\ comparison_result = ""
    /\ returned = NotReturned
    /\ fault = NoFault
    /\ report = <<>>
    /\ file = NoFile
    /\ io_error = "none"
    /\ messages = <<>>
    /\ events = <<>>
    /\ last_run = [n \in NonEmptyNames |-> NoRun]

NextExtract == Extract

SpecExtract == InitExtract /\ [][NextExtract]_vars

(***************************************************************************)
(* SpecReport: export_markdown applied to result maps of every shape: the  *)
(* keys in any order, with and without the reserved key, company values    *)
(* with and without their fields, and company values that are no record.   *)
(***************************************************************************)
CompanyNameList == <<"A", "B", "C", "D">>
ReportCompanies == {CompanyNameList[j] : j \in 1..MaxKeys}

CompanyDicts ==
    {[k \in {f \in {"ai_offerings", "sources"} :
               (IF f = "ai_offerings" THEN ao ELSE so) # <<>>}
        |-> (IF k = "ai_offerings" THEN ao ELSE so)[1]] :
        ao \in Optional({"o1"}), so \in Optional({<<>>, <<Source1>>})}

CompanyValues == {DictValue(d) : d \in CompanyDicts} \cup {StrValue("text")}

ValuesOf(key) == IF key = Reserved THEN {StrValue("c1")} ELSE CompanyValues

Orders(K) ==
    {f \in [1..Cardinality(K) -> K] :
        \A a, b \in 1..Cardinality(K) : a # b => f[a] # f[b]}

ResultMaps ==
    UNION {
        UNION {
            { [j \in 1..Cardinality(K) |-> [k |-> order[j], v |-> val[order[j]]]] :
                val \in {g \in [K -> CompanyValues \cup {StrValue("c1")}] :
                            \A key \in K : g[key] \in ValuesOf(key)} }
            : order \in Orders(K) }
        : K \in SUBSET (ReportCompanies \cup {Reserved}) }

InitReport ==
    /\ search_input = NotJson
    /\ extract_out = NotCalled
    /\ companies = <<>>
    /\ parent_company = ""
    /\ pc = "export"
    /\ idx = 1
    /\ research_results \in ResultMaps
    /\ search_results = NotJson
    /\ sources = <<>>
    /\ tool_calls = 0
    /\ comparison_result = ""
    /\ returned = [done |-> TRUE, value |-> research_results]
    /\ fault = NoFault
    /\ report = <<>>
    /\ file \in {NoFile, OldFile}
    /\ io_error = "none"
    /\ messages = <<>>
    /\ events = <<>>
    /\ last_run = [n \in NonEmptyNames |-> NoRun]

NextReport ==
    \/ ExportRenderFault
    \/ ExportWritten
    \/ ExportOpenFails
    \/ ExportWriteFails

SpecReport == InitReport /\ [][NextReport]_vars

(***************************************************************************)
(* Properties of extract_sources, checked under SpecExtract.               *)
(***************************************************************************)
InputItems == search_input.doc.organic.items
LinkOf(j) == Get(InputItems[j].d, "link", JStr(""))

\* a response with an `organic` array of dict entries whose links are strings
WellFormed ==
    /\ search_input.json
    /\ search_input.doc.t = "dict"
    /\ search_input.doc.has_organic
    /\ search_input.doc.organic.t = "list"
    /\ \A j \in 1..Len(InputItems) :
         InputItems[j].t = "dict" /\ LinkOf(j).t = "str"

\* the entries that carry a non-empty link no earlier entry carries
FirstSeen ==
    {j \in 1..Len(InputItems) :
        LinkOf(j) # JStr("") /\ \A i \in 1..(j - 1) : LinkOf(i) # LinkOf(j)}

\* the rank of entry j among the first-seen entries
Rank(j) == Cardinality({i \in FirstSeen : i <= j})

\* C1: for a well-formed response extract_sources returns, without raising,
\* exactly one Source per distinct non-empty link, in first-seen order, with
\* the title and snippet of the first entry carrying the link ('Untitled' and
\* '' when absent); later entries with a seen link and entries with an absent
\* or empty link contribute nothing.
C1_OneSourcePerLinkFirstSeen ==
    (pc = "extracted" /\ WellFormed) =>
        /\ extract_out.raised = "none"
        /\ Len(extract_out.ret) = Cardinality(FirstSeen)
        /\ \A j \in FirstSeen :
             extract_out.ret[Rank(j)] =
                [title |-> Get(InputItems[j].d, "title", JStr("Untitled")),
                 link |-> LinkOf(j),
                 snippet |-> Get(InputItems[j].d, "snippet", JStr(""))]

\* u1 without title, an entry without link, u1 again with a title: one Source
C1_Witness ==
    /\ pc = "extracted"
    /\ WellFormed
    /\ Len(InputItems) = 3
    /\ LinkOf(1) = JStr("u1") /\ LinkOf(3) = JStr("u1")
    /\ "link" \notin DOMAIN InputItems[2].d
    /\ "title" \notin DOMAIN InputItems[1].d
    /\ "title" \in DOMAIN InputItems[3].d
    /\ Len(extract_out.ret) = 1
    /\ extract_out.ret[1].title = JStr("Untitled")

\* the responses on which the try block raises
Faulting ==
    \/ ~search_input.json
    \/ search_input.doc.t \in {"null", "num"}
    \/ search_input.doc.t \in {"list", "str"} /\ search_input.doc.has_organic
    \/ /\ search_input.doc.t = "dict"
       /\ search_input.doc.has_organic
       /\ \/ search_input.doc.organic.t \in {"null", "num"}
          \/ \E j \in 1..Len(InputItems) :
               \/ InputItems[j].t # "dict"
               \/ LinkOf(j).t = "list"

\* the JSON values without `organic`
LacksOrganic ==
    /\ search_input.json
    /\ search_input.doc.t \in {"dict", "list", "str"}
    /\ ~search_input.doc.has_organic

\* C2: extract_sources never raises; for text that is not JSON, for JSON
\* without `organic`, and for a response that raises part-way through the
\* entries, it returns the empty list, whatever was collected before.
C2_ExtractNeverRaises ==
    pc = "extracted" =>
        /\ extract_out.raised = "none"
        /\ (~search_input.json \/ LacksOrganic \/ Faulting) => extract_out.ret = <<>>

\* a valid entry with link u1, then an entry that is no dict: nothing returned
C2_Witness ==
    /\ pc = "extracted"
    /\ search_input.json
    /\ search_input.doc.t = "dict"
    /\ search_input.doc.has_organic
    /\ search_input.doc.organic.t = "list"
    /\ Len(InputItems) = 2
    /\ InputItems[1].t = "dict"
    /\ LinkOf(1) = JStr("u1")
    /\ InputItems[2].t # "dict"
    /\ extract_out.raised = "none"
    /\ extract_out.ret = <<>>
    /\ extract_out.logged = 1

(***************************************************************************)
(* Properties of export_markdown and generate_markdown_report, checked     *)
(* under SpecReport.                                                       *)
(***************************************************************************)
CompanyKeys(m) == DictKeys(m) \ {Reserved}

\* C4: a rendered report begins with the title line and holds a
\* `## Comparative Analysis` section after the section of every company of
\* the map; without the reserved key the section holds the fallback text.
C4_ReportTitleAndComparativeLast ==
    pc = "done" =>
        /\ report[1] = ReportTitle
        /\ \A key \in CompanyKeys(research_results) :
             \E i \in 1..Len(report) : report[i] = CompanyHeading(key)
        /\ \E j \in 1..(Len(report) - 2) :
             /\ report[j] = ComparativeHeading
             /\ \A i \in 1..Len(report) :
                  (\E key \in CompanyKeys(research_results) :
                      report[i] = CompanyHeading(key)) => i < j
             /\ ~DictHas(research_results, Reserved) => report[j + 2] = NoComparative
             /\ DictHas(research_results, Reserved) =>
                  report[j + 2] = DictGet(research_results, Reserved).s

\* two companies and no reserved key: the fallback text ends the report
C4_Witness ==
    /\ pc = "done"
    /\ Cardinality(CompanyKeys(research_results)) = 2
    /\ ~DictHas(research_results, Reserved)
    /\ report[Len(report)] = NoComparative
    /\ report[Len(report) - 2] = ComparativeHeading

\* C5: when the target cannot be opened for writing export_markdown returns
\* normally, prints exactly one error message and no success message, and
\* leaves the disk as it was; when the write succeeds it prints exactly one
\* success message and the file holds the report.
C5_ExportUnwritableDoesNotRaise ==
    /\ io_error = "open" =>
         /\ pc = "done"
         /\ fault = NoFault
         /\ messages = <<"error">>
         /\ file \in {NoFile, OldFile}
         /\ file.content # report
    /\ (pc = "done" /\ io_error = "none") =>
         /\ messages = <<"success">>
         /\ file = [exists |-> TRUE, content |-> report]

\* the open failed where no file existed: one error message, still no file
C5_Witness ==
    /\ pc = "done"
    /\ io_error = "open"
    /\ messages = <<"error">>
    /\ file = NoFile
    /\ Len(report) > 3

(***************************************************************************)
(* Properties of research_companies and main, checked under Spec.          *)
(***************************************************************************)
Positions == 1..Len(all_companies)
Occurrences(n) == Cardinality({p \in Positions : all_companies[p] = n})
Issued(op, n) ==
    Cardinality({j \in 1..Len(events) : events[j].op = op /\ events[j].name = n})
IssuedAt(op, p) ==
    Cardinality({j \in 1..Len(events) : events[j].op = op /\ events[j].at = p})
WorkingNames == {all_companies[p] : p \in Positions} \ {""}

\* what extract_sources makes of each answer of the search provider
SourcesOf(response) == IF response = GoodResponse THEN <<Source1, Source2>> ELSE <<>>

\* the record the last run of name n produced
LastRecord(n) ==
    DictValue([ai_offerings |-> Get(last_run[n].research, "output", NoOfferings),
               sources |-> SourcesOf(last_run[n].search_results)])

\* C3: duplicates are not removed: a name occurring k times in
\* companies + [parent_company] is searched and agent-researched k times,
\* the returned map has one key per distinct name plus comparative_analysis,
\* and the record under a duplicated name is that of its last run.
C3_DuplicatesProcessedLastRunWins ==
    returned.done =>
        /\ \A n \in NonEmptyNames :
             /\ Issued("search", n) = Occurrences(n)
             /\ Issued("agent", n) = Occurrences(n)
        /\ DictKeys(returned.value) = WorkingNames \cup {Reserved}
        /\ Len(returned.value) = Cardinality(DictKeys(returned.value))
        /\ \A n \in WorkingNames :
             Occurrences(n) >= 2 => DictGet(returned.value, n) = LastRecord(n)

\* C6: once an external call of research_companies has raised, the process
\* has ended there: nothing was issued after the faulting call, no comparison
\* unless the comparison is the faulting call, nothing was returned to main,
\* and the report was neither rendered nor written nor announced.
C6_FaultAbortsRun ==
    fault.kind # "none" =>
        /\ pc = "crashed"
        /\ Len(events) = fault.at
        /\ events[Len(events)].op = fault.kind
        /\ \A j \in 1..Len(events) :
             /\ events[j].at <= events[Len(events)].at
             /\ events[j].op = "compare" => fault.kind = "compare"
        /\ returned = NotReturned
        /\ report = <<>>
        /\ file = NoFile
        /\ messages = <<>>

\* the agent raises on the second of three entries, after the record of the
\* first was stored; the third entry is never searched, no file is written
C6_Witness ==
    /\ fault.kind = "agent"
    /\ Len(all_companies) = 3
    /\ \A p \in Positions : all_companies[p] # ""
    /\ idx = 2
    /\ Len(research_results) = 1
    /\ IssuedAt("search", 3) = 0
    /\ file = NoFile

\* C7: in a run without fault the comparison call is issued exactly once and
\* after the search and the agent invocation of every non-empty entry, each
\* entry's search before its agent invocation; the comparison's content is
\* what the returned map holds under comparative_analysis.
C7_ComparisonOnceAfterAllCompanies ==
    /\ (fault.kind = "none" /\ ~returned.done) =>
         \A j \in 1..Len(events) : events[j].op # "compare"
    /\ returned.done =>
         /\ Cardinality({j \in 1..Len(events) : events[j].op = "compare"}) = 1
         /\ events[Len(events)].op = "compare"
         /\ \A p \in Positions :
              all_companies[p] # "" =>
                 \E a, b \in 1..Len(events) :
                    /\ a < b
                    /\ events[a].op = "search" /\ events[a].at = p
                    /\ events[b].op = "agent" /\ events[b].at = p
         /\ comparison_result \in ComparisonContents
         /\ DictGet(returned.value, Reserved) = StrValue(comparison_result)

\* three companies processed, then the comparison
C7_Witness ==
    /\ returned.done
    /\ Len(events) = 7
    /\ events[7].op = "compare"
    /\ DictGet(returned.value, Reserved) = StrValue("c1")

\* C8: after a run without fault the returned map holds, under every
\* non-empty name n of companies + [parent_company], whatever string n is,
\* the record of n: the agent's output and the extracted sources.
C8_RecordForEveryCompany ==
    returned.done =>
        \A n \in WorkingNames :
            /\ DictHas(returned.value, n)
            /\ DictGet(returned.value, n) = LastRecord(n)

\* C9: an empty entry is skipped: no search and no agent invocation is
\* issued for it and it becomes no key of the result map; in a run without
\* fault every non-empty entry, before and after it, is processed once.
C9_EmptyEntriesSkipped ==
    /\ \A j \in 1..Len(events) :
         events[j].op \in {"search", "agent"} => events[j].name # ""
    /\ ~DictHas(research_results, "")
    /\ returned.done =>
         \A p \in Positions :
            all_companies[p] # "" =>
               IssuedAt("search", p) = 1 /\ IssuedAt("agent", p) = 1

\* ["A", ""] with parent "B": A and B are processed, the empty entry is not
C9_Witness ==
    /\ returned.done
    /\ companies = <<"A", "">>
    /\ parent_company = "B"
    /\ Len(events) = 5
    /\ DictKeys(returned.value) = {"A", "B", Reserved}

\* C10: the sources of a company's record are those of the direct search of
\* that company's run, however often the agent called web_search during the
\* run and whatever it was answered; a malformed direct-search response
\* gives sources = [] and the record is still created.
C10_SourcesFromDirectSearchOnly ==
    \A n \in NonEmptyNames :
        last_run[n].ran =>
            /\ DictHas(research_results, n)
            /\ DictGet(research_results, n).type = "dict" =>
                 /\ DictGet(research_results, n).d["sources"]
                       = SourcesOf(last_run[n].search_results)
                 /\ last_run[n].search_results = NotJson =>
                       DictGet(research_results, n).d["sources"] = <<>>

\* the direct search of A was answered with text that is no JSON, the agent
\* called web_search, and the record of A exists with no sources
C10_Witness ==
    /\ pc = "loop"
    /\ idx = 2
    /\ all_companies[1] = "A"
    /\ tool_calls >= 1
    /\ last_run["A"].ran
    /\ last_run["A"].search_results = NotJson
    /\ DictHas(research_results, "A")
    /\ DictGet(research_results, "A").d["sources"] = <<>>
    /\ DictGet(research_results, "A").d["ai_offerings"] = "o1"
====
